---------------------------- MODULE Spec2Model ----------------------------
(***************************************************************************)
(* gs_usb: host-side driver for gs_usb (candleLight) USB-CAN adapters.     *)
(*                                                                         *)
(* The model follows the package src/gs_usb/ (GsUsb, GsUsbFrame) and, for  *)
(* the bus-error decoder, GsUsb.parse_err_frame of src/gs_usb.py.          *)
(*                                                                         *)
(* The USB handle (self.gs_usb, a pyusb device) is the environment: every  *)
(* call on it either succeeds or raises usb.core.USBError (or its subclass *)
(* USBTimeoutError).  Each action is one whole method call; the variable   *)
(* call records the finished call: its arguments, the calls it made on the *)
(* handle in order (log), and how it ended (result).                       *)
(*                                                                         *)
(* Python ints that are packed as 32-bit fields may exceed 2^31-1, which   *)
(* TLC's integers cannot hold: a 32-bit value is the record [hi, lo] of    *)
(* its two 16-bit halves.  struct's native byte order is little-endian on  *)
(* the hosts the adapter is used with, and "2I12BI", "II", "5I", "4B2I"    *)
(* need no padding under native alignment.                                 *)
(***************************************************************************)
EXTENDS Integers, Sequences, FiniteSets, TLC

VARIABLES
    windows,        \* "windows" in platform.system().lower()
    dev_state,      \* the adapter: "Uninitialized", "Started" or "Stopped"
    frame,          \* the caller's GsUsbFrame object
    wire,           \* buffers written to the OUT endpoint and echoed back, oldest first
    call            \* the last finished call

vars == <<windows, dev_state, frame, wire, call>>

---------------------------------------------------------------------------
(* Bounds of the model *)

\* buffers the adapter holds for the IN endpoint at once
MaxInFlight == 1

---------------------------------------------------------------------------
(* Constants of the program *)

GS_USB_MODE_NORMAL == 0
GS_USB_MODE_LISTEN_ONLY == 1
GS_USB_MODE_LOOP_BACK == 2
GS_USB_MODE_ONE_SHOT == 8
GS_USB_MODE_NO_ECHO_BACK == 256

_GS_USB_BREQ_BITTIMING == 1
_GS_USB_BREQ_MODE == 2
_GS_USB_BREQ_DEVICE_CONFIG == 5

GS_USB_ECHO_ID == 0
GS_USB_FRAME_SIZE == 24

CAN_ERR_BUSOFF == 1
CAN_ERR_RX_TX_WARNING == 2
CAN_ERR_RX_TX_PASSIVE == 4
CAN_ERR_OVERLOAD == 8
CAN_ERR_STUFF == 16
CAN_ERR_FORM == 32
CAN_ERR_ACK == 64
CAN_ERR_BIT_RECESSIVE == 128
CAN_ERR_BIT_DOMINANT == 256
CAN_ERR_CRC == 512

---------------------------------------------------------------------------
(* Python's int operators and struct's codes *)

RECURSIVE BitAnd(_, _)
\* a & b on non-negative ints
BitAnd(a, b) ==
    IF a = 0 \/ b = 0 THEN 0
    ELSE (a % 2) * (b % 2) + 2 * BitAnd(a \div 2, b \div 2)

RECURSIVE BitOr(_, _)
\* a | b on non-negative ints
BitOr(a, b) ==
    IF a = 0 THEN b
    ELSE IF b = 0 THEN a
    ELSE (IF a % 2 = 1 \/ b % 2 = 1 THEN 1 ELSE 0) + 2 * BitOr(a \div 2, b \div 2)

\* a Python int below 2^31 as a 32-bit value
ToU32(n) == [hi |-> n \div 65536, lo |-> n % 65536]

\* a 32-bit value below 2^31 as a Python int
ToInt(v) == v.hi * 65536 + v.lo

\* struct code "I" (pack): four bytes, least significant first
PackI(v) == <<v.lo % 256, v.lo \div 256, v.hi % 256, v.hi \div 256>>

\* struct code "I" (unpack) of the four bytes after offset off
UnpackI(d, off) ==
    [hi |-> d[off + 3] + 256 * d[off + 4], lo |-> d[off + 1] + 256 * d[off + 2]]

\* pack("II", a, b)
pack_II(a, b) == PackI(ToU32(a)) \o PackI(ToU32(b))

\* pack("5I", ...)
pack_5I(a, b, c, d, e) ==
    PackI(ToU32(a)) \o PackI(ToU32(b)) \o PackI(ToU32(c)) \o PackI(ToU32(d))
        \o PackI(ToU32(e))

---------------------------------------------------------------------------
(* The USB handle *)

\* what a call on the handle may raise
TransportErrors == {"USBError", "USBTimeoutError"}

\* one call on the handle: its name, its arguments, the bytes it carries or
\* returns, and how it ended ("ok" or the exception raised)
T(op, hdr, data) == [op |-> op, hdr |-> hdr, data |-> data, st |-> "ok"]

\* how the calls of plan may go: none raises (<<0, "ok">>), or the i-th raises
\* kind (<<i, kind>>)
Outcomes(plan) ==
    {<<0, "ok">>} \cup {<<i, kind>> : i \in 1..Len(plan), kind \in TransportErrors}

\* the calls a method makes on the handle under outcome o: nothing after a
\* raising call is executed
Attempt(plan, o) ==
    IF o[1] = 0 THEN plan
    ELSE SubSeq(plan, 1, o[1] - 1) \o <<[plan[o[1]] EXCEPT !.st = o[2]]>>

\* the exception the handle raised in log, "ok" if none
Raised(log) ==
    IF log = <<>> \/ log[Len(log)].st = "ok" THEN "ok" ELSE log[Len(log)].st

\* (variant: the exception is swallowed)
PropagateSwallowed(err, ret) == ret

\* a method without try/except: an exception of the handle leaves the method
Propagate(err, ret) == IF err = "ok" THEN ret ELSE err

Call(op, args, log, result, value) ==
    [op |-> op, args |-> args, log |-> log, result |-> result, value |-> value,
     before |-> dev_state]

---------------------------------------------------------------------------
(* GsUsb.start *)

Modes ==
    {a + b + c + d :
        a \in {GS_USB_MODE_NORMAL, GS_USB_MODE_LISTEN_ONLY},
        b \in {GS_USB_MODE_NORMAL, GS_USB_MODE_LOOP_BACK},
        c \in {GS_USB_MODE_NORMAL, GS_USB_MODE_ONE_SHOT},
        d \in {GS_USB_MODE_NORMAL, GS_USB_MODE_NO_ECHO_BACK}}

\* (variant: mode |= 1 << 3)
start_mode_shift3(mode) == BitOr(mode, 8)

\* mode |= 1 << 4
start_mode(mode) == BitOr(mode, 16)

\* mode_ = 1; data = pack("II", mode_, mode)
start_data(mode) == pack_II(1, start_mode(mode))

\* (variant: the reset is made on the first start only)
start_plan_reset_once(mode, active) ==
    (IF dev_state = "Uninitialized" THEN <<T("reset", <<>>, <<>>)>> ELSE <<>>)
    \o (IF ~windows THEN <<T("is_kernel_driver_active", <<0>>, <<active>>)>> ELSE <<>>)
    \o (IF ~windows /\ active THEN <<T("detach_kernel_driver", <<0>>, <<>>)>> ELSE <<>>)
    \o <<T("ctrl_transfer", <<65, _GS_USB_BREQ_MODE, 0, 0>>, start_data(mode))>>

\* the calls start makes on the handle, in order; active is the answer of
\* is_kernel_driver_active(0), asked only off Windows ("and" short-circuits)
start_plan(mode, active) ==
    <<T("reset", <<>>, <<>>)>>
    \o (IF ~windows THEN <<T("is_kernel_driver_active", <<0>>, <<active>>)>> ELSE <<>>)
    \o (IF ~windows /\ active THEN <<T("detach_kernel_driver", <<0>>, <<>>)>> ELSE <<>>)
    \o <<T("ctrl_transfer", <<65, _GS_USB_BREQ_MODE, 0, 0>>, start_data(mode))>>

Start ==
    \E mode \in Modes, active \in (IF windows THEN {FALSE} ELSE BOOLEAN) :
    \E o \in Outcomes(start_plan(mode, active)) :
        LET log == Attempt(start_plan(mode, active), o)
        IN  /\ call' = Call("start", <<mode>>, log, Propagate(Raised(log), "None"), <<>>)
            /\ dev_state' = IF Raised(log) = "ok" THEN "Started" ELSE dev_state
            /\ UNCHANGED <<windows, frame, wire>>

---------------------------------------------------------------------------
(* GsUsb.stop *)

\* mode_ = 0; mode = 0; data = pack("II", mode_, mode)
stop_data == pack_II(0, 0)

\* ctrl_transfer(0x41, _GS_USB_BREQ_MODE, 0, 0, data)
stop_plan == <<T("ctrl_transfer", <<65, _GS_USB_BREQ_MODE, 0, 0>>, stop_data)>>

\* (variant: no try/except around the transfer, as GsUsb.stop of src/gs_usb.py)
StopPropagates ==
    \E o \in Outcomes(stop_plan) :
        LET log == Attempt(stop_plan, o)
            err == Raised(log)
        IN  /\ call' = Call("stop", <<>>, log, Propagate(err, "None"), <<>>)
            /\ dev_state' = IF err = "ok" THEN "Stopped" ELSE dev_state
            /\ UNCHANGED <<windows, frame, wire>>

\* try: ctrl_transfer(...)  except usb.core.USBError: pass
Stop ==
    \E o \in Outcomes(stop_plan) :
        LET log == Attempt(stop_plan, o)
            err == Raised(log)
        IN  /\ call' = Call("stop", <<>>, log, "None", <<>>)
            /\ dev_state' = IF err = "ok" THEN "Stopped" ELSE dev_state
            /\ UNCHANGED <<windows, frame, wire>>

---------------------------------------------------------------------------
(* GsUsb.set_timing, GsUsb.set_bitrate *)

\* data = pack("5I", ...); ctrl_transfer(0x41, _GS_USB_BREQ_BITTIMING, 0, 0, data)
set_timing_plan(prop_seg, phase_seg1, phase_seg2, sjw, brp) ==
    <<T("ctrl_transfer", <<65, _GS_USB_BREQ_BITTIMING, 0, 0>>,
        pack_5I(prop_seg, phase_seg1, phase_seg2, sjw, brp))>>

\* the timings a caller may push directly: the ends of the documented ranges
Timings == {<<1, 1, 1, 1, 1>>, <<1, 12, 2, 1, 300>>, <<1, 15, 8, 4, 1024>>}

SetTiming ==
    \E t \in Timings :
    \E o \in Outcomes(set_timing_plan(t[1], t[2], t[3], t[4], t[5])) :
        LET log == Attempt(set_timing_plan(t[1], t[2], t[3], t[4], t[5]), o)
        IN  /\ call' = Call("set_timing", t, log, Propagate(Raised(log), "None"), <<>>)
            /\ UNCHANGED <<windows, dev_state, frame, wire>>

\* (variant: phase_seg1 = 12 in the branch of 800000)
set_bitrate_plan_800k_as_500k(bitrate) ==
    IF bitrate = 10000 THEN set_timing_plan(1, 12, 2, 1, 300)
    ELSE IF bitrate = 20000 THEN set_timing_plan(1, 12, 2, 1, 150)
    ELSE IF bitrate = 50000 THEN set_timing_plan(1, 12, 2, 1, 60)
    ELSE IF bitrate = 83333 THEN set_timing_plan(1, 12, 2, 1, 36)
    ELSE IF bitrate = 100000 THEN set_timing_plan(1, 12, 2, 1, 30)
    ELSE IF bitrate = 125000 THEN set_timing_plan(1, 12, 2, 1, 24)
    ELSE IF bitrate = 250000 THEN set_timing_plan(1, 12, 2, 1, 12)
    ELSE IF bitrate = 500000 THEN set_timing_plan(1, 12, 2, 1, 6)
    ELSE IF bitrate = 800000 THEN set_timing_plan(1, 12, 2, 1, 4)
    ELSE IF bitrate = 1000000 THEN set_timing_plan(1, 11, 2, 1, 3)
    ELSE <<>>

\* prop_seg = 1; sjw = 1; the if/elif chain: the set_timing call of the branch
\* taken, none in the else branch
set_bitrate_plan(bitrate) ==
    IF bitrate = 10000 THEN set_timing_plan(1, 12, 2, 1, 300)
    ELSE IF bitrate = 20000 THEN set_timing_plan(1, 12, 2, 1, 150)
    ELSE IF bitrate = 50000 THEN set_timing_plan(1, 12, 2, 1, 60)
    ELSE IF bitrate = 83333 THEN set_timing_plan(1, 12, 2, 1, 36)
    ELSE IF bitrate = 100000 THEN set_timing_plan(1, 12, 2, 1, 30)
    ELSE IF bitrate = 125000 THEN set_timing_plan(1, 12, 2, 1, 24)
    ELSE IF bitrate = 250000 THEN set_timing_plan(1, 12, 2, 1, 12)
    ELSE IF bitrate = 500000 THEN set_timing_plan(1, 12, 2, 1, 6)
    ELSE IF bitrate = 800000 THEN set_timing_plan(1, 11, 2, 1, 4)
    ELSE IF bitrate = 1000000 THEN set_timing_plan(1, 11, 2, 1, 3)
    ELSE <<>>

\* the ten bitrates of the chain and values beside, between and beyond them
Bitrates ==
    {10000, 20000, 50000, 83333, 100000, 125000, 250000, 500000, 800000, 1000000,
     0, 999, 9999, 10001, 83334, 999999, 1000001}

\* else: return False; otherwise return True after set_timing
SetBitrate ==
    \E bitrate \in Bitrates :
    \E o \in Outcomes(set_bitrate_plan(bitrate)) :
        LET plan == set_bitrate_plan(bitrate)
            log == Attempt(plan, o)
            ret == IF plan = <<>> THEN "False" ELSE "True"
        IN  /\ call' = Call("set_bitrate", <<bitrate>>, log,
                            Propagate(Raised(log), ret), <<>>)
            /\ UNCHANGED <<windows, dev_state, frame, wire>>

---------------------------------------------------------------------------
(* GsUsb.device_info *)

\* str(n / 10): the integer part and the one decimal of a version times ten
Tenths(n) == <<n \div 10, n % 10>>

\* unpack("4B2I", data): calcsize is 12
unpack_4B2I(data) ==
    <<data[1], data[2], data[3], data[4], ToInt(UnpackI(data, 4)), ToInt(UnpackI(data, 8))>>

\* "fw: " + str(tup[4] / 10) + " hw: " + str(tup[5] / 10)
device_info(data) ==
    <<"fw: ", Tenths(unpack_4B2I(data)[5]), " hw: ", Tenths(unpack_4B2I(data)[6])>>

\* what the adapter may answer to the device-config request
DeviceConfigs ==
    {<<0, 0, 0, 0, 2, 0, 0, 0, 11, 0, 0, 0>>,
     <<1, 2, 3, 4, 20, 0, 0, 0, 10, 1, 0, 0>>,
     <<0, 0, 0, 0, 2, 0, 0, 0>>}

DeviceInfo ==
    \/ \E kind \in TransportErrors :
        /\ call' = Call("device_info", <<>>,
                        <<[T("ctrl_transfer", <<193, _GS_USB_BREQ_DEVICE_CONFIG, 0, 0, 12>>,
                             <<>>) EXCEPT !.st = kind]>>,
                        Propagate(kind, "value"), <<>>)
        /\ UNCHANGED <<windows, dev_state, frame, wire>>
    \/ \E data \in DeviceConfigs :
        /\ call' = Call("device_info", <<>>,
                        <<T("ctrl_transfer", <<193, _GS_USB_BREQ_DEVICE_CONFIG, 0, 0, 12>>,
                            data)>>,
                        IF Len(data) # 12 THEN "struct.error" ELSE "value",
                        IF Len(data) # 12 THEN <<>> ELSE device_info(data))
        /\ UNCHANGED <<windows, dev_state, frame, wire>>

---------------------------------------------------------------------------
(* GsUsbFrame *)

\* [0] * n
Zeros(n) == [i \in 1..n |-> 0]

\* GsUsbFrame.__init__(can_id, data)
GsUsbFrame(can_id, data) ==
    [echo_id |-> ToU32(GS_USB_ECHO_ID),
     can_id |-> can_id,
     channel |-> 0,
     flags |-> 0,
     reserved |-> 0,
     timestamp_us |-> ToU32(0),
     data |-> data \o Zeros(8 - Len(data)),
     can_dlc |-> Len(data)]

\* 0x80000123 (extended id 0x123), 0x20000060 (error frame, bus-off and ack)
CanIds == {[hi |-> 32768, lo |-> 291], [hi |-> 8192, lo |-> 96]}

Payloads == {<<>>, <<17, 34, 51>>, <<222, 173, 190, 239, 1, 128, 5, 2>>}

Construct ==
    \E can_id \in CanIds, data \in Payloads :
        /\ frame' = GsUsbFrame(can_id, data)
        /\ call' = Call("GsUsbFrame", <<>>, <<>>, "None", <<>>)
        /\ UNCHANGED <<windows, dev_state, wire>>

\* echo_id, channel, flags, reserved, timestamp_us a caller assigns:
\* 0xFFFFFFFF (GS_USB_NONE_ECHO_ID) and 0x01020304; 0xFFFFFFFF and 0x0A0B0C0D
Extras ==
    {<<[hi |-> 65535, lo |-> 65535], 255, 255, 255, [hi |-> 65535, lo |-> 65535]>>,
     <<[hi |-> 258, lo |-> 772], 1, 2, 3, [hi |-> 2571, lo |-> 3085]>>}

\* the attributes __init__ leaves at their defaults are plain attributes
SetAttrs(f, x) ==
    [f EXCEPT !.echo_id = x[1], !.channel = x[2], !.flags = x[3], !.reserved = x[4],
              !.timestamp_us = x[5]]

SetFields ==
    \E x \in Extras :
        /\ frame' = SetAttrs(frame, x)
        /\ call' = Call("setattr", <<>>, <<>>, "None", <<>>)
        /\ UNCHANGED <<windows, dev_state, wire>>

---------------------------------------------------------------------------
(* GsUsb.send *)

\* (variant: flags packed before channel)
send_data_flags_first(f) ==
    PackI(f.echo_id) \o PackI(f.can_id)
        \o <<f.can_dlc, f.flags, f.channel, f.reserved>> \o f.data
        \o PackI(f.timestamp_us)

\* pack("2I12BI", echo_id, can_id, can_dlc, channel, flags, reserved, *data,
\*      timestamp_us)
send_data(f) ==
    PackI(f.echo_id) \o PackI(f.can_id)
        \o <<f.can_dlc, f.channel, f.flags, f.reserved>> \o f.data
        \o PackI(f.timestamp_us)

\* gs_usb.write(0x02, data); return True.  The adapter may echo the buffer
\* back on the IN endpoint when it holds fewer than MaxInFlight.
Send ==
    \E o \in Outcomes(<<T("write", <<2>>, send_data(frame))>>) :
    \E echoed \in (IF o[1] = 0 THEN BOOLEAN ELSE {FALSE}) :
        LET log == Attempt(<<T("write", <<2>>, send_data(frame))>>, o)
        IN  /\ call' = Call("send", <<frame>>, log, Propagate(Raised(log), "True"), <<>>)
            /\ wire' = IF Raised(log) = "ok" /\ echoed /\ Len(wire) < MaxInFlight
                       THEN Append(wire, send_data(frame)) ELSE wire
            /\ UNCHANGED <<windows, dev_state, frame>>

---------------------------------------------------------------------------
(* GsUsb.read *)

\* (variant: only a buffer that is too short is refused, as unpack_from does)
unpack_fails_short_only(data) == Len(data) < GS_USB_FRAME_SIZE

\* unpack("2I12BI", data) raises struct.error unless data holds calcsize = 24 bytes
unpack_fails(data) == Len(data) # GS_USB_FRAME_SIZE

\* unpack("2I12BI", data)
unpack_2I12BI(data) ==
    <<UnpackI(data, 0), UnpackI(data, 4)>> \o SubSeq(data, 9, 20) \o <<UnpackI(data, 20)>>

\* (frame.echo_id, frame.can_id, frame.can_dlc, frame.channel, frame.flags,
\*  frame.reserved, *frame.data, frame.timestamp_us) = tup
assign_fields(tup) ==
    [echo_id |-> tup[1],
     can_id |-> tup[2],
     can_dlc |-> tup[3],
     channel |-> tup[4],
     flags |-> tup[5],
     reserved |-> tup[6],
     data |-> SubSeq(tup, 7, 14),
     timestamp_us |-> tup[15]]

\* (variant: no try/except around the bulk read)
read_caught_none(err) == FALSE

\* except usb.core.USBError (USBTimeoutError is a subclass)
read_caught(err) == err \in {"USBError", "USBTimeoutError"}

\* 0 blocks until a frame arrives
Timeouts == {0, 100}

\* what the handle may return for a buffer in flight: all of it, nothing,
\* all but the last byte, one byte more
Delivered(buf) ==
    {buf, <<>>, SubSeq(buf, 1, 23), buf \o <<0>>}

Read ==
    \E timeout_ms \in Timeouts :
        \/ \E kind \in TransportErrors :
            /\ call' = Call("read", <<timeout_ms>>,
                            <<[T("read", <<129, GS_USB_FRAME_SIZE, timeout_ms>>, <<>>)
                                  EXCEPT !.st = kind]>>,
                            IF read_caught(kind) THEN "False" ELSE kind, <<>>)
            /\ UNCHANGED <<windows, dev_state, frame, wire>>
        \/ /\ wire # <<>>
           /\ \E data \in Delivered(Head(wire)) :
                /\ call' = Call("read", <<timeout_ms>>,
                                <<T("read", <<129, GS_USB_FRAME_SIZE, timeout_ms>>, data)>>,
                                IF unpack_fails(data) THEN "struct.error" ELSE "True",
                                <<>>)
                /\ frame' = IF unpack_fails(data) THEN frame
                            ELSE assign_fields(unpack_2I12BI(data))
                /\ wire' = Tail(wire)
                /\ UNCHANGED <<windows, dev_state>>

---------------------------------------------------------------------------
(* GsUsb.parse_err_frame *)

\* (variant: "if" instead of "elif" before RX_TX_PASSIVE)
parse_err_frame_independent_ifs(f) ==
    <<(IF BitAnd(f.can_id.lo, 64) # 0 THEN CAN_ERR_BUSOFF ELSE 0)
      + (IF BitAnd(f.data[2], 4) # 0 THEN CAN_ERR_RX_TX_WARNING ELSE 0)
      + (IF BitAnd(f.data[2], 16) # 0 THEN CAN_ERR_RX_TX_PASSIVE ELSE 0)
      + (IF BitAnd(f.flags, 1) # 0 THEN CAN_ERR_OVERLOAD ELSE 0)
      + (IF BitAnd(f.data[3], 4) # 0 THEN CAN_ERR_STUFF ELSE 0)
      + (IF BitAnd(f.data[3], 2) # 0 THEN CAN_ERR_FORM ELSE 0)
      + (IF BitAnd(f.can_id.lo, 32) # 0 THEN CAN_ERR_ACK ELSE 0)
      + (IF BitAnd(f.data[3], 16) # 0 THEN CAN_ERR_BIT_RECESSIVE ELSE 0)
      + (IF BitAnd(f.data[3], 8) # 0 THEN CAN_ERR_BIT_DOMINANT ELSE 0)
      + (IF BitAnd(f.data[4], 8) # 0 THEN CAN_ERR_CRC ELSE 0),
      f.data[7], f.data[8]>>

\* error_code |= ... under each if, in the order of the source; Python's
\* data[k] is data[k + 1] here.  The masks 0x40 and 0x20 lie in the low half
\* of can_id.
parse_err_frame(f) ==
    LET c0 == 0
        c1 == IF BitAnd(f.can_id.lo, 64) # 0 THEN BitOr(c0, CAN_ERR_BUSOFF) ELSE c0
        c2 == IF BitAnd(f.data[2], 4) # 0 THEN BitOr(c1, CAN_ERR_RX_TX_WARNING)
              ELSE IF BitAnd(f.data[2], 16) # 0 THEN BitOr(c1, CAN_ERR_RX_TX_PASSIVE)
              ELSE c1
        c3 == IF BitAnd(f.flags, 1) # 0 THEN BitOr(c2, CAN_ERR_OVERLOAD) ELSE c2
        c4 == IF BitAnd(f.data[3], 4) # 0 THEN BitOr(c3, CAN_ERR_STUFF) ELSE c3
        c5 == IF BitAnd(f.data[3], 2) # 0 THEN BitOr(c4, CAN_ERR_FORM) ELSE c4
        c6 == IF BitAnd(f.can_id.lo, 32) # 0 THEN BitOr(c5, CAN_ERR_ACK) ELSE c5
        c7 == IF BitAnd(f.data[3], 16) # 0 THEN BitOr(c6, CAN_ERR_BIT_RECESSIVE) ELSE c6
        c8 == IF BitAnd(f.data[3], 8) # 0 THEN BitOr(c7, CAN_ERR_BIT_DOMINANT) ELSE c7
        c9 == IF BitAnd(f.data[4], 8) # 0 THEN BitOr(c8, CAN_ERR_CRC) ELSE c8
    IN  <<c9, f.data[7], f.data[8]>>

\* error frames as the adapter reports them: every combination of the bits
\* the decoder reads, with and without the bits it ignores
ErrFrames ==
    {[GsUsbFrame([hi |-> 8192, lo |-> lo], <<0, d1, d2, d3, 0, 0, tx, rx>>)
         EXCEPT !.flags = fl] :
        lo \in {0, 32, 64, 96, 159},
        d1 \in {0, 4, 16, 20, 235, 255},
        d2 \in {a + b + c + d + e : a \in {0, 2}, b \in {0, 4}, c \in {0, 8},
                                    d \in {0, 16}, e \in {0, 225}},
        d3 \in {0, 8, 247},
        fl \in {0, 1, 254},
        tx \in {0, 5},
        rx \in {2, 255}}

ParseErrFrame ==
    /\ call' = Call("parse_err_frame", <<frame>>, <<>>, "value", parse_err_frame(frame))
    /\ UNCHANGED <<windows, dev_state, frame, wire>>

---------------------------------------------------------------------------
(* Specifications *)

NoCall ==
    [op |-> "none", args |-> <<>>, log |-> <<>>, result |-> "None", value |-> <<>>,
     before |-> "Uninitialized"]

\* a handle just found by scan()/find(), a frame just constructed
Init ==
    /\ windows \in BOOLEAN
    /\ dev_state = "Uninitialized"
    /\ frame = GsUsbFrame(ToU32(0), <<>>)
    /\ wire = <<>>
    /\ call = NoCall

\* the methods of GsUsb on one handle, the caller's frame as constructed
Next ==
    \/ Start
    \/ Stop
    \/ SetTiming
    \/ SetBitrate
    \/ DeviceInfo
    \/ Send
    \/ Read

Spec == Init /\ [][Next]_vars

\* frames of every shape sent, echoed and read back
CodecNext ==
    \/ Construct
    \/ SetFields
    \/ Send
    \/ Read

CodecSpec == Init /\ [][CodecNext]_vars

\* the bus-error decoder applied to error frames
ErrInit ==
    /\ windows \in BOOLEAN
    /\ dev_state = "Started"
    /\ frame \in ErrFrames
    /\ wire = <<>>
    /\ call = NoCall

ErrNext == ParseErrFrame

ErrSpec == ErrInit /\ [][ErrNext]_vars

---------------------------------------------------------------------------
(* Properties *)

\* bit k of a non-negative int
Bit(n, k) == (n \div (2 ^ k)) % 2

\* the int below 2^31 held little-endian in the four bytes after offset off
Le32(d, off) ==
    d[off + 1] + 256 * d[off + 2] + 65536 * d[off + 3] + 16777216 * d[off + 4]

\* the calls on the handle, of the last finished call, that raised
RaisedAt == {i \in 1..Len(call.log) : call.log[i].st # "ok"}

\* the calls on the handle, of the last finished call, named op
CallsOf(op) == {i \in 1..Len(call.log) : call.log[i].op = op}

\* C1: whenever the mode control transfer of stop() raises a transport error,
\* stop() returns normally, having attempted exactly one mode control transfer,
\* with payload (0, 0).
C1_StopSwallowsTransportFailure ==
    (call.op = "stop" /\ RaisedAt # {}) =>
        /\ call.result = "None"
        /\ Len(call.log) = 1
        /\ call.log[1].op = "ctrl_transfer"
        /\ call.log[1].hdr = <<65, 2, 0, 0>>
        /\ call.log[1].data = <<0, 0, 0, 0, 0, 0, 0, 0>>

\* a stop() whose control transfer timed out, on a started adapter
C1_Witness ==
    /\ call.op = "stop"
    /\ call.before = "Started"
    /\ call.log[1].st = "USBTimeoutError"
    /\ call.result = "None"

\* the table of the specification: bitrate, phase_seg1, phase_seg2, brp
TimingRows ==
    {<<10000, 12, 2, 300>>, <<20000, 12, 2, 150>>, <<50000, 12, 2, 60>>,
     <<83333, 12, 2, 36>>, <<100000, 12, 2, 30>>, <<125000, 12, 2, 24>>,
     <<250000, 12, 2, 12>>, <<500000, 12, 2, 6>>, <<800000, 11, 2, 4>>,
     <<1000000, 11, 2, 3>>}

\* C2: set_bitrate(b) for a bitrate of the table attempts exactly one bit-timing
\* control transfer, carrying (1, phase_seg1, phase_seg2, 1, brp) of the row of b,
\* and returns True when the handle accepts it; for any other bitrate it returns
\* False and makes no call on the handle.
C2_SetBitrateAgreesWithTable ==
    call.op = "set_bitrate" =>
        IF \E r \in TimingRows : r[1] = call.args[1]
        THEN LET r == CHOOSE r \in TimingRows : r[1] = call.args[1]
                 d == call.log[1].data
             IN  /\ Len(call.log) = 1
                 /\ call.log[1].op = "ctrl_transfer"
                 /\ call.log[1].hdr = <<65, 1, 0, 0>>
                 /\ Len(d) = 20
                 /\ <<Le32(d, 0), Le32(d, 4), Le32(d, 8), Le32(d, 12), Le32(d, 16)>>
                        = <<1, r[2], r[3], 1, r[4]>>
                 /\ (call.log[1].st = "ok" => call.result = "True")
                 /\ call.result # "False"
        ELSE /\ call.result = "False"
             /\ call.log = <<>>

\* set_bitrate(800000) accepted by the handle (a row with phase_seg1 = 11)
C2_Witness ==
    /\ call.op = "set_bitrate"
    /\ call.args = <<800000>>
    /\ call.result = "True"
    /\ call.log[1].st = "ok"

\* C5: in start(), set_timing(), device_info and send(), a transfer (control
\* transfer or bulk write) that raises a transport error ends the method with
\* that same error, is the last call the method makes on the handle, and is
\* made exactly once.
C5_TransportFailureSurfacesOnce ==
    call.op \in {"start", "set_timing", "device_info", "send"} =>
        \A i \in RaisedAt :
            call.log[i].op \in {"ctrl_transfer", "write"} =>
                /\ call.result = call.log[i].st
                /\ i = Len(call.log)
                /\ CallsOf("ctrl_transfer") \cup CallsOf("write") = {i}

\* a start() whose mode control transfer raised USBError after a good reset
C5_Witness ==
    /\ call.op = "start"
    /\ Len(call.log) >= 2
    /\ call.log[1].st = "ok"
    /\ call.log[Len(call.log)].op = "ctrl_transfer"
    /\ call.log[Len(call.log)].st = "USBError"
    /\ call.result = "USBError"

\* C6: the mode control transfer of start(m) carries host_format = 1 and a mode
\* word whose bit 4 is set and whose every other bit equals that bit of m.
C6_StartModeWord ==
    call.op = "start" =>
        \A i \in CallsOf("ctrl_transfer") :
            LET d == call.log[i].data
            IN  /\ call.log[i].hdr = <<65, 2, 0, 0>>
                /\ Len(d) = 8
                /\ Le32(d, 0) = 1
                /\ d[8] < 128
                /\ \A k \in 0..30 :
                      Bit(Le32(d, 4), k) = IF k = 4 THEN 1 ELSE Bit(call.args[1], k)

\* start(LISTEN_ONLY | LOOP_BACK | ONE_SHOT | NO_ECHO_BACK) reaching its transfer
C6_Witness ==
    /\ call.op = "start"
    /\ call.args = <<267>>
    /\ CallsOf("ctrl_transfer") # {}
    /\ call.result = "None"

\* C9: whatever was called before, a start(m) on which no call on the handle
\* raises succeeds and leaves the adapter started, makes the reset its first
\* call on the handle and the mode control transfer its last, each once, and
\* the payload of that transfer is (1, m | 0x10), a function of m alone.
C9_RestartIsStateless ==
    (call.op = "start" /\ RaisedAt = {}) =>
        LET n == Len(call.log)
            m == call.args[1]
        IN  /\ call.result = "None"
            /\ dev_state = "Started"
            /\ n >= 2
            /\ CallsOf("reset") = {1}
            /\ CallsOf("ctrl_transfer") = {n}
            /\ call.log[n].data = <<1, 0, 0, 0, (m + 16) % 256, (m + 16) \div 256, 0, 0>>

\* a start() that succeeded on an adapter that was already started
C9_Witness ==
    /\ call.op = "start"
    /\ call.before = "Started"
    /\ call.result = "None"
    /\ dev_state = "Started"

\* C10: when the reset at the beginning of start(m) raises, start(m) still
\* issues the mode control transfer with payload (1, m | 0x10).
C10_ResetIsBestEffort ==
    (call.op = "start" /\ call.log[1].op = "reset" /\ call.log[1].st # "ok") =>
        \E i \in CallsOf("ctrl_transfer") :
            call.log[i].data
                = <<1, 0, 0, 0, (call.args[1] + 16) % 256, (call.args[1] + 16) \div 256, 0, 0>>

\* every frame a caller of the model can hold before a send
AllFrames ==
    LET built == {GsUsbFrame(c, p) : c \in CanIds \cup {ToU32(0)}, p \in Payloads}
    IN  built \cup {SetAttrs(f, x) : f \in built, x \in Extras}

\* C3: when read() returns True on the 24 bytes a send(f) wrote, the caller's
\* frame equals f in every field, and the bytes lie in the order echo_id,
\* can_id, can_dlc, channel, flags, reserved, data[0..8], timestamp_us, the
\* 32-bit fields least significant byte first.
C3_FrameRoundTrip ==
    (call.op = "read" /\ call.result = "True") =>
        LET d == call.log[1].data
        IN  /\ Len(d) = 24
            /\ \E f \in AllFrames : d = send_data(f)
            /\ \A f \in AllFrames : d = send_data(f) => frame = f
            /\ <<frame.echo_id.lo % 256, frame.echo_id.lo \div 256,
                 frame.echo_id.hi % 256, frame.echo_id.hi \div 256>> = SubSeq(d, 1, 4)
            /\ <<frame.can_id.lo % 256, frame.can_id.lo \div 256,
                 frame.can_id.hi % 256, frame.can_id.hi \div 256>> = SubSeq(d, 5, 8)
            /\ <<frame.can_dlc, frame.channel, frame.flags, frame.reserved>>
                   = SubSeq(d, 9, 12)
            /\ frame.data = SubSeq(d, 13, 20)
            /\ <<frame.timestamp_us.lo % 256, frame.timestamp_us.lo \div 256,
                 frame.timestamp_us.hi % 256, frame.timestamp_us.hi \div 256>>
                   = SubSeq(d, 21, 24)

\* a read that returned an extended-id frame of 8 data bytes with
\* echo_id 0x01020304, channel 1, flags 2, reserved 3, timestamp 0x0A0B0C0D
C3_Witness ==
    /\ call.op = "read"
    /\ call.result = "True"
    /\ frame.echo_id = [hi |-> 258, lo |-> 772]
    /\ frame.can_id = [hi |-> 32768, lo |-> 291]
    /\ frame.can_dlc = 8
    /\ <<frame.channel, frame.flags, frame.reserved>> = <<1, 2, 3>>
    /\ frame.data = <<222, 173, 190, 239, 1, 128, 5, 2>>
    /\ frame.timestamp_us = [hi |-> 2571, lo |-> 3085]

\* the last call was a read() to which the handle returned a buffer of a
\* length other than 24
BadLengthRead ==
    /\ call.op = "read"
    /\ call.log[1].st = "ok"
    /\ Len(call.log[1].data) # 24

C7_TimeoutIsNoData ==
    [][call'.op = "read" =>
          /\ call'.log[1].st \in TransportErrors =>
                (call'.result = "False" /\ frame' = frame)
          /\ call'.result = "True" => call'.log[1].st = "ok"
          /\ frame' # frame => call'.result = "True"]_vars

\* a read(frame, 100) that timed out on a frame holding 8 data bytes
C7_Witness ==
    /\ call.op = "read"
    /\ call.args = <<100>>
    /\ call.log[1].st = "USBTimeoutError"
    /\ call.result = "False"
    /\ frame.can_dlc = 8

\* C8: parse_err_frame(f) returns as error code the sum of the distinct flags
\* BUS_OFF (can_id & 0x40), OVERLOAD (flags & 0x01), STUFF (data[2] & 0x04),
\* FORM (data[2] & 0x02), ACK (can_id & 0x20), BIT_RECESSIVE (data[2] & 0x10),
\* BIT_DOMINANT (data[2] & 0x08), CRC (data[3] & 0x08), and RX_TX_WARNING when
\* data[1] & 0x04, else RX_TX_PASSIVE when data[1] & 0x10, so never both; and
\* returns data[6] and data[7] as the tx and rx error counts.
C8_ParseErrFrameAgreesWithTable ==
    call.op = "parse_err_frame" =>
        LET f == call.args[1]
            warning == Bit(f.data[2], 2) = 1
            passive == Bit(f.data[2], 4) = 1
            expected ==
                1 * Bit(f.can_id.lo, 6)
                + (IF warning THEN 2 ELSE IF passive THEN 4 ELSE 0)
                + 8 * Bit(f.flags, 0)
                + 16 * Bit(f.data[3], 2)
                + 32 * Bit(f.data[3], 1)
                + 64 * Bit(f.can_id.lo, 5)
                + 128 * Bit(f.data[3], 4)
                + 256 * Bit(f.data[3], 3)
                + 512 * Bit(f.data[4], 3)
        IN  /\ call.value = <<expected, f.data[7], f.data[8]>>
            /\ ~(Bit(call.value[1], 1) = 1 /\ Bit(call.value[1], 2) = 1)

\* an error frame with both data[1] bits 0x04 and 0x10 set, decoded to WARNING
\* without PASSIVE, bus-off and ack set, counts 5 and 2
C8_Witness ==
    /\ call.op = "parse_err_frame"
    /\ frame.can_id.lo = 96
    /\ frame.data[2] = 20
    /\ frame.data[7] = 5
    /\ frame.data[8] = 2
    /\ Bit(call.value[1], 1) = 1
    /\ Bit(call.value[1], 2) = 0
    /\ Bit(call.value[1], 0) = 1

===========================================================================
